---- MODULE Spec2Model ----
(***************************************************************************)
(* Model of the notebook urban-exploration-climate_ukv.ipynb: the cells    *)
(* that create the cache directory, download and load the UKV file, build  *)
(* the target latitude/longitude cube, regrid onto it, extract a region    *)
(* and save it.                                                            *)
(*                                                                         *)
(* Numbers.  Every coordinate is an integer count of 1/Scale degree, and   *)
(* Scale is chosen so that every division the code performs on the         *)
(* modelled inputs (the step of np.linspace, the half cell width of        *)
(* guess_bounds) is exact.  Floating point rounding is not modelled.       *)
(* Interpolated data values are exact fractions <<num, den>>.              *)
(*                                                                         *)
(* Literals.  The notebook holds its parameters as literals (extents       *)
(* 48.5..59.5 and -10.5..2.0, counts 1222 and 1389, the London box).  The  *)
(* model reads them from the record lit, drawn from bounded sets, so that  *)
(* statements made "for any extents, counts and box" can be checked.       *)
(***************************************************************************)
EXTENDS Integers, Sequences, FiniteSets, TLC

VARIABLES
    pc,               \* the next code cell of the run, or "done" / "failed"
    run,              \* number of the current run of the notebook
    executed,         \* cells this run has executed to completion, in order
    failedAt,         \* the cell that raised in this run, or "none"
    dirExists,        \* os.path.exists(notebook_folder)
    cacheFile,        \* content of notebook_folder/filename, or "absent"
    outFile,          \* content of ukv_london_sample.nc
    remote,           \* what the fixed URL serves
    lit,              \* the notebook's literals
    env,              \* the served cube, the frame transform, the library build
    air_temp,         \* kernel variable air_temp
    global_cube,      \* kernel variable global_cube
    global_air_temp,  \* kernel variable global_air_temp
    air_temp_london   \* kernel variable air_temp_london

vars == <<pc, run, executed, failedAt, dirExists, cacheFile, outFile, remote,
          lit, env, air_temp, global_cube, global_air_temp, air_temp_london>>

storage == <<dirExists, cacheFile, outFile>>
kernel == <<air_temp, global_cube, global_air_temp, air_temp_london>>
inputs == <<remote, lit, env>>

----------------------------------------------------------------------------
(* Bounds of the model *)

MaxCount == 3       \* largest number of points per axis of the target grid
MaxExtent == 2      \* extents range over 0..MaxExtent whole degrees
MaxRuns == 2        \* runs of the notebook in one behaviour

----------------------------------------------------------------------------
(* Arithmetic helpers *)

RECURSIVE Gcd(_, _)
Gcd(a, b) == IF b = 0 THEN a ELSE Gcd(b, a % b)

RECURSIVE LcmUpTo(_)
LcmUpTo(k) == IF k <= 1 THEN 1
              ELSE LET l == LcmUpTo(k - 1) IN (l * k) \div Gcd(l, k)

\* Units per degree: a multiple of 2 * (n - 1) for every count n in the model.
Scale == 2 * LcmUpTo(MaxCount)

\* units 'degrees' of both DimCoords: the modulus of the unit is 360 degrees.
Modulus == 360 * Scale

\* guess_bounds clips latitude bounds to the poles.
Pole == 90 * Scale

SetMin(S) == CHOOSE x \in S : \A y \in S : x <= y
SetMax(S) == CHOOSE x \in S : \A y \in S : x >= y
Range(s) == {s[i] : i \in 1..Len(s)}

----------------------------------------------------------------------------
(* np.linspace(start, stop, num), endpoint included.  For num = 1 numpy    *)
(* returns the single point start.                                         *)

\* Fault variant: the step taken over num instead of num - 1 intervals.
LinspaceOffByOne(start, stop, num) ==
    [i \in 1..num |-> start + ((i - 1) * (stop - start)) \div num]

Linspace(start, stop, num) ==
    [i \in 1..num |->
        IF num = 1 THEN start
        ELSE start + ((i - 1) * (stop - start)) \div (num - 1)]

----------------------------------------------------------------------------
(* Coord.guess_bounds() with the default bound_position 0.5.  It raises    *)
(* ValueError when the coordinate already has bounds or has one point.     *)
(* Otherwise cell i gets <<p[i] - d[i-1]/2, p[i] + d[i]/2>> with d the     *)
(* differences of adjacent points, the first and last difference repeated  *)
(* at the ends.  For a latitude in degrees whose points all lie between    *)
(* the poles the bounds are clipped to the poles.                          *)

NoBounds == <<>>

GuessBoundsRaises(points, bounds) == bounds # NoBounds \/ Len(points) < 2

Clip(x, isLat, pts) ==
    IF isLat /\ \A i \in 1..Len(pts) : pts[i] >= -Pole /\ pts[i] <= Pole
    THEN (IF x < -Pole THEN -Pole ELSE IF x > Pole THEN Pole ELSE x)
    ELSE x

\* Fault variant: cells that start at their point (bound_position 0).
GuessBoundsLeftEdge(points, isLat) ==
    [i \in 1..Len(points) |->
        << points[i],
           IF i = Len(points) THEN 2 * points[i] - points[i - 1] ELSE points[i + 1] >>]

GuessBounds(points, isLat) ==
    LET n == Len(points)
        d(i) == IF i = 0 THEN points[2] - points[1]
                ELSE IF i = n THEN points[n] - points[n - 1]
                ELSE points[i + 1] - points[i]
    IN [i \in 1..n |->
          << Clip(points[i] - d(i - 1) \div 2, isLat, points),
             Clip(points[i] + d(i) \div 2, isLat, points) >>]

----------------------------------------------------------------------------
(* Cubes.  A cube holds two dimension coordinates (points and, once        *)
(* guessed, bounds), a data array with its shape, and whether its          *)
(* coordinates carry a coordinate system.  A data cell is                  *)
(* [m |-> masked, num |-> numerator, den |-> denominator].                 *)

NoCube == [held |-> FALSE, lat |-> <<>>, lon |-> <<>>, latb |-> NoBounds,
           lonb |-> NoBounds, shape |-> <<0, 0>>, data |-> <<>>, cs |-> FALSE]

Val(v) == [m |-> FALSE, num |-> v, den |-> 1]
Masked == [m |-> TRUE, num |-> 0, den |-> 1]

MkCube(lat, lon, latb, lonb, shape, data, cs) ==
    [held |-> TRUE, lat |-> lat, lon |-> lon, latb |-> latb, lonb |-> lonb,
     shape |-> shape, data |-> data, cs |-> cs]

----------------------------------------------------------------------------
(* Cell "Retrieve and load": what the URL serves and what iris.load_cube   *)
(* makes of the cached file.                                               *)

\* The served cube's data: a row-major ramp, or a non-monotone pattern.
Pattern(k, i, j, cols) ==
    IF k = 1 THEN (i - 1) * cols + (j - 1) ELSE (3 * i * i + 7 * j) % 5

SourceData(rows, cols, k, maskedCells) ==
    [ij \in (1..rows) \X (1..cols) |->
        IF ij \in maskedCells THEN Masked
        ELSE Val(Pattern(k, ij[1], ij[2], cols))]

\* iris.load_cube on a well-formed file: the cube as the file stores it.  A
\* file that stores bounds is given contiguous ones.
ParseCube(file) ==
    MkCube(file.lat, file.lon,
           IF file.hasBounds THEN GuessBounds(file.lat, TRUE) ELSE NoBounds,
           IF file.hasBounds THEN GuessBounds(file.lon, FALSE) ELSE NoBounds,
           <<Len(file.lat), Len(file.lon)>>,
           SourceData(Len(file.lat), Len(file.lon), file.pattern, file.masked),
           file.cs)

\* load_cube raises unless the file holds the complete, parsable dataset.
LoadRaises(content) == content # "ukv"

\* coord(latitude).guess_bounds() then coord(longitude).guess_bounds(): the
\* cube as the two statements leave it, and the exception of the first that
\* raises ("none" when both complete).
GuessCubeBounds(cube) ==
    IF GuessBoundsRaises(cube.lat, cube.latb)
    THEN [cube |-> cube, error |-> "ValueError"]
    ELSE LET c1 == [cube EXCEPT !.latb = GuessBounds(cube.lat, TRUE)]
         IN IF GuessBoundsRaises(c1.lon, c1.lonb)
            THEN [cube |-> c1, error |-> "ValueError"]
            ELSE [cube |-> [c1 EXCEPT !.lonb = GuessBounds(c1.lon, FALSE)],
                  error |-> "none"]

----------------------------------------------------------------------------
(* Cell "Create a target cube": DimCoord(np.linspace(...)) for latitude    *)
(* and longitude, a Cube of random data of the same shape, guess_bounds.   *)

\* np.random.uniform(size=(n, m)): the draw ranges over a family of arrays.
Filler(rows, cols, seed) ==
    [ij \in (1..rows) \X (1..cols) |->
        [m |-> FALSE, num |-> (seed + ij[1] + ij[2]) % 2, den |-> 2]]

TargetCube(l) ==
    MkCube(Linspace(l.lat0, l.lat1, l.n), Linspace(l.lon0, l.lon1, l.m),
           NoBounds, NoBounds, <<l.n, l.m>>, Filler(l.n, l.m, l.seed), TRUE)

----------------------------------------------------------------------------
(* Cell "Perform the regridding":                                          *)
(* air_temp.regrid(global_cube, Linear(extrapolation_mode="mask")).        *)
(* Every target point is first transformed into the source's frame; the    *)
(* frame transform itself is trigonometric and is drawn from a family of   *)
(* integer affine maps.                                                    *)

Project(tr, latv, lonv) ==
    << tr.a * lonv + tr.b * latv + tr.c, tr.d * lonv + tr.e * latv + tr.f >>

\* Extrapolation is needed beyond the first and last source points.
OutsideAxis(x, axis) == x < axis[1] \/ x > axis[Len(axis)]

OutsideSource(src, pos) ==
    OutsideAxis(pos[1], src.lon) \/ OutsideAxis(pos[2], src.lat)

\* Lower index of the source interval used for x (the edge interval beyond).
CellIndex(x, axis) ==
    LET below == {i \in 1..(Len(axis) - 1) : axis[i] <= x}
    IN IF below = {} THEN 1 ELSE SetMax(below)

\* The four source nodes around pos with their (unnormalised) weights.
Stencil(src, pos) ==
    LET j == CellIndex(pos[1], src.lon)
        i == CellIndex(pos[2], src.lat)
        x0 == src.lon[j]
        x1 == src.lon[j + 1]
        y0 == src.lat[i]
        y1 == src.lat[i + 1]
    IN [den |-> (x1 - x0) * (y1 - y0),
        nodes |-> << [ij |-> <<i, j>>,         w |-> (x1 - pos[1]) * (y1 - pos[2])],
                     [ij |-> <<i, j + 1>>,     w |-> (pos[1] - x0) * (y1 - pos[2])],
                     [ij |-> <<i + 1, j>>,     w |-> (x1 - pos[1]) * (pos[2] - y0)],
                     [ij |-> <<i + 1, j + 1>>, w |-> (pos[1] - x0) * (pos[2] - y0)] >>]

\* Linear interpolation (or extrapolation) of the source data at pos.
Interpolate(src, pos) ==
    LET st == Stencil(src, pos)
        used == {k \in 1..4 : st.nodes[k].w # 0}
    IN IF \E k \in used : src.data[st.nodes[k].ij].m
       THEN Masked
       ELSE [m |-> FALSE,
             num |-> st.nodes[1].w * src.data[st.nodes[1].ij].num
                   + st.nodes[2].w * src.data[st.nodes[2].ij].num
                   + st.nodes[3].w * src.data[st.nodes[3].ij].num
                   + st.nodes[4].w * src.data[st.nodes[4].ij].num,
             den |-> st.den]

\* One output value under the scheme's extrapolation_mode.
RegridPoint(src, pos, mode) ==
    IF OutsideSource(src, pos) /\ mode = "mask" THEN Masked
    ELSE Interpolate(src, pos)

\* Fault variant: the scheme's default mode.
ExtrapolationModeExtrapolate == "extrapolate"

\* The mode the notebook passes to iris.analysis.Linear.
ExtrapolationMode == "mask"

\* regrid raises when only one of the two cubes has a coordinate system.
RegridRaises(src, tgt) == src.cs # tgt.cs

RegridOp(src, tgt, tr) ==
    MkCube(tgt.lat, tgt.lon, tgt.latb, tgt.lonb,
           <<Len(tgt.lat), Len(tgt.lon)>>,
           [ij \in (1..Len(tgt.lat)) \X (1..Len(tgt.lon)) |->
               RegridPoint(src, Project(tr, tgt.lat[ij[1]], tgt.lon[ij[2]]),
                           ExtrapolationMode)],
           tgt.cs)

----------------------------------------------------------------------------
(* Cell "Extract the London Region":                                       *)
(* global_air_temp.intersection(longitude=(min_lon, max_lon),              *)
(*                              latitude=(min_lat, max_lat)).              *)
(* The notebook pins no iris version.  Builds before 3.2 select the cells  *)
(* of which a bound lies within the range ("bound_inside"); later builds   *)
(* select the cells whose bounds overlap the range ("overlap").  The range *)
(* is compared modulo the unit's modulus.                                  *)

\* iris.analysis.cartography.wrap_lons
WrapLons(x, base, period) == ((x - base) % period) + base

\* Fault variants of the selection: a flipped comparison, strict containment
\* of the cell in the range, and a selection that ignores the minimum.
InsideIndicesFlipped(rule, bounds, minimum, maximum) ==
    {i \in 1..Len(bounds) :
        LET hi == WrapLons(bounds[i][2], minimum, Modulus)
        IN hi - (bounds[i][2] - bounds[i][1]) > maximum}

InsideIndicesContained(rule, bounds, minimum, maximum) ==
    {i \in 1..Len(bounds) :
        \A k \in 1..2 :
            LET w == WrapLons(bounds[i][k], minimum, Modulus)
            IN minimum <= w /\ w <= maximum}

InsideIndicesNoLowerLimit(rule, bounds, minimum, maximum) ==
    {i \in 1..Len(bounds) : bounds[i][1] <= maximum}

\* inside_indices of Cube._intersect_modulus
InsideIndices(rule, bounds, minimum, maximum) ==
    IF rule = "bound_inside"
    THEN {i \in 1..Len(bounds) :
            \E k \in 1..2 :
                LET w == WrapLons(bounds[i][k], minimum, Modulus)
                IN minimum <= w /\ w <= maximum}
    ELSE {i \in 1..Len(bounds) :
            LET hi == WrapLons(bounds[i][2], minimum, Modulus)
            IN hi - (bounds[i][2] - bounds[i][1]) <= maximum}

\* The exception _intersect raises for one coordinate, or "none".
IntersectError(rule, bounds, minimum, maximum) ==
    IF minimum > maximum THEN "ValueError"
    ELSE IF maximum > minimum + Modulus THEN "ValueError"
    ELSE IF bounds[Len(bounds)][2] > bounds[1][1] + Modulus THEN "ValueError"
    ELSE IF InsideIndices(rule, bounds, minimum, maximum) = {} THEN "IndexError"
    ELSE "none"

\* The subsets as one sequence of indices: a single contiguous block, or the
\* block at the end followed by the block at the start when the range wraps.
SubsetIndices(inside, n) ==
    LET first == SetMin(inside)
        last == SetMax(inside)
        contiguous == \A i \in first..last : i \in inside
    IN IF ~contiguous /\ first = 1 /\ last = n
       THEN LET gap == SetMin({i \in 1..n : i \notin inside})
                second == SetMin({i \in inside : i > gap})
            IN [k \in 1..((n - second + 1) + (gap - 1)) |->
                   IF k <= n - second + 1 THEN second + k - 1
                   ELSE k - (n - second + 1)]
       ELSE [k \in 1..(last - first + 1) |-> first + k - 1]

\* The minimum the points and bounds are wrapped from: moved down to the
\* lower bound of a selected cell that the first wrap would split.
ExtendedMinimum(bounds, inside, minimum) ==
    LET split == {i \in inside :
                    WrapLons(bounds[i][2], minimum, Modulus)
                  - WrapLons(bounds[i][1], minimum, Modulus)
                  # bounds[i][2] - bounds[i][1]}
    IN IF split = {} THEN minimum
       ELSE SetMin({WrapLons(bounds[i][2], minimum, Modulus)
                    - (bounds[i][2] - bounds[i][1]) : i \in split})

\* One coordinate of the result: the selected indices, the points wrapped
\* from the extended minimum, and the bounds kept at their offsets from the
\* points.
IntersectCoord(rule, points, bounds, minimum, maximum) ==
    LET inside == InsideIndices(rule, bounds, minimum, maximum)
        idx == SubsetIndices(inside, Len(points))
        emin == ExtendedMinimum(bounds, inside, minimum)
        wp(i) == WrapLons(points[i], emin, Modulus)
    IN [idx |-> idx,
        points |-> [k \in 1..Len(idx) |-> wp(idx[k])],
        bounds |-> [k \in 1..Len(idx) |->
                      << wp(idx[k]) - (points[idx[k]] - bounds[idx[k]][1]),
                         wp(idx[k]) - (points[idx[k]] - bounds[idx[k]][2]) >>]]

\* The exception intersection raises (longitude first, then latitude).
ExtractError(rule, cube, box) ==
    LET e == IntersectError(rule, cube.lonb, box.min_lon, box.max_lon)
    IN IF e # "none" THEN e
       ELSE IntersectError(rule, cube.latb, box.min_lat, box.max_lat)

ExtractOp(rule, cube, box) ==
    LET x == IntersectCoord(rule, cube.lon, cube.lonb, box.min_lon, box.max_lon)
        y == IntersectCoord(rule, cube.lat, cube.latb, box.min_lat, box.max_lat)
    IN MkCube(y.points, x.points, y.bounds, x.bounds,
              <<Len(y.idx), Len(x.idx)>>,
              [ij \in (1..Len(y.idx)) \X (1..Len(x.idx)) |->
                  cube.data[<<y.idx[ij[1]], x.idx[ij[2]]>>]],
              cube.cs)

----------------------------------------------------------------------------
(* The run: the code cells in notebook order.  A cell that raises ends the *)
(* run; the cells after it are not executed.                               *)

Cells == << "setup", "download", "load", "plot_source", "target", "plot_target",
            "regrid", "plot_regridded", "extract", "plot_region", "save" >>

CellIndexOf(c) == CHOOSE i \in 1..Len(Cells) : Cells[i] = c

\* Fault variant: the following cell is skipped.
NextCellSkipping(c) ==
    IF CellIndexOf(c) + 2 > Len(Cells) THEN "done" ELSE Cells[CellIndexOf(c) + 2]

NextCell(c) ==
    IF CellIndexOf(c) = Len(Cells) THEN "done" ELSE Cells[CellIndexOf(c) + 1]

\* The cell ran to completion: control passes to the next cell.
Completes(c) ==
    /\ pc' = NextCell(c)
    /\ executed' = Append(executed, c)
    /\ failedAt' = failedAt

\* Fault variant: the run goes on after an exception.
RaisesContinuing(c, exc) ==
    /\ pc' = NextCell(c)
    /\ executed' = executed
    /\ failedAt' = [cell |-> c, error |-> exc]

\* The cell raised exc: the run stops at this cell.
Raises(c, exc) ==
    /\ pc' = "failed"
    /\ executed' = executed
    /\ failedAt' = [cell |-> c, error |-> exc]

NoFailure == [cell |-> "none", error |-> "none"]

\* if not os.path.exists(notebook_folder): os.makedirs(notebook_folder)
SetUp ==
    /\ pc = "setup"
    /\ dirExists' = (IF ~dirExists THEN TRUE ELSE dirExists)
    /\ Completes("setup")
    /\ UNCHANGED <<run, cacheFile, outFile, inputs, kernel>>

\* Fault variant: an existing file is kept.
RetrievedKeepingExisting(old, served) == IF old = "absent" THEN served ELSE old

\* The destination file after a complete transfer: opened "wb", so an
\* existing file is replaced by the served bytes.
Retrieved(old, served) == served

\* urllib.request.urlretrieve(filepath+filename, os.path.join(folder, filename))
Download ==
    /\ pc = "download"
    /\ \E outcome \in {"ok", "refused", "truncated"} :
          IF outcome = "refused"
          THEN /\ Raises("download", "URLError")
               /\ cacheFile' = cacheFile
          ELSE IF ~dirExists
          THEN /\ Raises("download", "FileNotFoundError")
               /\ cacheFile' = cacheFile
          ELSE IF outcome = "truncated"
          THEN /\ Raises("download", "ContentTooShortError")
               /\ cacheFile' = "partial"
          ELSE /\ Completes("download")
               /\ cacheFile' = Retrieved(cacheFile, remote)
    /\ UNCHANGED <<run, dirExists, outFile, inputs, kernel>>

\* air_temp = iris.load_cube(...); guess_bounds() on both grid coordinates
Load ==
    /\ pc = "load"
    /\ IF LoadRaises(cacheFile)
       THEN /\ Raises("load", "ParseError")
            /\ air_temp' = air_temp
       ELSE LET g == GuessCubeBounds(ParseCube(env.file))
            IN /\ air_temp' = g.cube
               /\ IF g.error # "none" THEN Raises("load", g.error)
                  ELSE Completes("load")
    /\ UNCHANGED <<run, storage, inputs, global_cube, global_air_temp,
                   air_temp_london>>

\* iplt.pcolormesh(cube) with title, colour bar, coastlines and gridlines:
\* reads the cube, changes nothing the later cells use.
Render(c, cube) ==
    /\ pc = c
    /\ cube.held
    /\ Completes(c)
    /\ UNCHANGED <<run, storage, inputs, kernel>>

PlotSource == Render("plot_source", air_temp)

\* latitude, longitude = DimCoord(np.linspace(...)); global_cube = Cube(...);
\* guess_bounds() on both coordinates
Target ==
    /\ pc = "target"
    /\ LET g == GuessCubeBounds(TargetCube(lit))
       IN /\ global_cube' = g.cube
          /\ IF g.error # "none" THEN Raises("target", g.error)
             ELSE Completes("target")
    /\ UNCHANGED <<run, storage, inputs, air_temp, global_air_temp,
                   air_temp_london>>

PlotTarget == Render("plot_target", global_cube)

\* global_air_temp = air_temp.regrid(global_cube, Linear(extrapolation_mode="mask"))
Regrid ==
    /\ pc = "regrid"
    /\ IF RegridRaises(air_temp, global_cube)
       THEN /\ Raises("regrid", "ValueError")
            /\ global_air_temp' = global_air_temp
       ELSE /\ Completes("regrid")
            /\ global_air_temp' = RegridOp(air_temp, global_cube, env.tr)
    /\ UNCHANGED <<run, storage, inputs, air_temp, global_cube, air_temp_london>>

PlotRegridded == Render("plot_regridded", global_air_temp)

\* air_temp_london = global_air_temp.intersection(longitude=..., latitude=...)
Extract ==
    /\ pc = "extract"
    /\ IF ExtractError(env.rule, global_air_temp, lit) # "none"
       THEN /\ Raises("extract", ExtractError(env.rule, global_air_temp, lit))
            /\ air_temp_london' = air_temp_london
       ELSE /\ Completes("extract")
            /\ air_temp_london' = ExtractOp(env.rule, global_air_temp, lit)
    /\ UNCHANGED <<run, storage, inputs, air_temp, global_cube, global_air_temp>>

PlotRegion == Render("plot_region", air_temp_london)

\* iris.save(air_temp_london, os.path.join(notebook_folder, 'ukv_london_sample.nc'))
Save ==
    /\ pc = "save"
    /\ outFile' = [run |-> run, cube |-> air_temp_london]
    /\ Completes("save")
    /\ UNCHANGED <<run, dirExists, cacheFile, inputs, kernel>>

\* The notebook is run again from the top in a fresh kernel; local storage
\* is what the previous run left.
Rerun ==
    /\ pc \in {"done", "failed"}
    /\ run < MaxRuns
    /\ run' = run + 1
    /\ pc' = Cells[1]
    /\ executed' = <<>>
    /\ failedAt' = NoFailure
    /\ air_temp' = NoCube
    /\ global_cube' = NoCube
    /\ global_air_temp' = NoCube
    /\ air_temp_london' = NoCube
    /\ UNCHANGED <<storage, inputs>>

----------------------------------------------------------------------------
(* Inputs *)

Intervals(C) == {ab \in C \X C : ab[1] <= ab[2]}

\* Target grids: extents in whole degrees, 1..MaxCount points per axis.
TargetLits(starts) ==
    {[lat0 |-> a[1] * Scale, lat1 |-> a[2] * Scale, n |-> n,
      lon0 |-> o[1] * Scale, lon1 |-> o[2] * Scale, m |-> m, seed |-> 0] :
        a \in {e \in starts \X (1..MaxExtent) : e[1] < e[2]},
        o \in {e \in starts \X (1..MaxExtent) : e[1] < e[2]},
        n \in 1..MaxCount, m \in 1..MaxCount}

\* Box edges: below the grids, inside a first cell (twice), on a cell bound
\* or point, and above the grids.
BoxCoords == {-2 * Scale, 1, 2, Scale \div 2, Scale, (MaxExtent + 2) * Scale,
              (MaxExtent + 3) * Scale}

WithBox(t, lo, la) ==
    [lat0 |-> t.lat0, lat1 |-> t.lat1, n |-> t.n,
     lon0 |-> t.lon0, lon1 |-> t.lon1, m |-> t.m, seed |-> t.seed,
     min_lon |-> lo[1], max_lon |-> lo[2], min_lat |-> la[1], max_lat |-> la[2]]

\* Source axes in the source frame: uniform and non-uniform.
SrcAxes == { <<0, Scale>>, <<0, Scale, 2 * Scale>>, <<0, Scale, 4 * Scale>> }

File(lat, lon, hasBounds, cs, pattern, masked) ==
    [lat |-> lat, lon |-> lon, hasBounds |-> hasBounds, cs |-> cs,
     pattern |-> pattern, masked |-> masked]

Affine(a, b, c, d, e, f) == [a |-> a, b |-> b, c |-> c, d |-> d, e |-> e, f |-> f]

Transforms ==
    { Affine(1, 0, 0, 0, 1, Scale \div 2),
      Affine(1, 1, -Scale, -1, 1, Scale \div 2),
      Affine(1, 0, Scale \div 4, 0, 1, -(Scale \div 4)) }

Rules == {"bound_inside", "overlap"}

GoodFile == File(<<0, Scale, 2 * Scale>>, <<0, Scale, 4 * Scale>>, FALSE, TRUE, 1, {})

PipelineFiles ==
    { GoodFile,
      File(<<0, Scale>>, <<0, Scale>>, TRUE, TRUE, 1, {}),
      File(<<0, Scale>>, <<0, Scale, 2 * Scale>>, FALSE, FALSE, 2, {<<1, 1>>}) }

PipelineLits ==
    {WithBox(t, lo, la) :
        t \in TargetLits({0}),
        lo \in Intervals({-2 * Scale, 1, Scale}) \cup {<<1 + Modulus, Scale + Modulus>>},
        la \in {<<1, 1>>, <<1, Scale>>}}

DefaultTransform == Affine(1, 0, 0, 0, 1, Scale \div 2)

----------------------------------------------------------------------------
(* The whole notebook, run from the top, from any local storage state *)

Init ==
    /\ pc = Cells[1]
    /\ run = 1
    /\ executed = <<>>
    /\ failedAt = NoFailure
    /\ dirExists \in BOOLEAN
    /\ cacheFile \in {"absent", "stale"}
    /\ outFile = [run |-> 0, cube |-> NoCube]
    /\ remote \in {"ukv", "junk"}
    /\ lit \in PipelineLits
    /\ env \in {[file |-> f, tr |-> DefaultTransform, rule |-> r] :
                   f \in PipelineFiles, r \in Rules}
    /\ air_temp = NoCube
    /\ global_cube = NoCube
    /\ global_air_temp = NoCube
    /\ air_temp_london = NoCube

Next ==
    \/ SetUp
    \/ Download
    \/ Load
    \/ PlotSource
    \/ Target
    \/ PlotTarget
    \/ Regrid
    \/ PlotRegridded
    \/ Extract
    \/ PlotRegion
    \/ Save
    \/ Rerun

Spec == Init /\ [][Next]_vars

----------------------------------------------------------------------------
(* Single cells, started from the state a run is in when it reaches them *)

Loaded(e) == GuessCubeBounds(ParseCube(e.file)).cube
Built(l) == GuessCubeBounds(TargetCube(l)).cube

\* The state of a run of the notebook, with literals l in environment e,
\* that has completed every cell before c.
AtCell(c, l, e) ==
    /\ pc = c
    /\ run = 1
    /\ executed = SubSeq(Cells, 1, CellIndexOf(c) - 1)
    /\ failedAt = NoFailure
    /\ dirExists = TRUE
    /\ cacheFile = "ukv"
    /\ outFile = [run |-> 0, cube |-> NoCube]
    /\ remote = "ukv"
    /\ lit = l
    /\ env = e
    /\ air_temp = Loaded(e)
    /\ global_cube =
         IF CellIndexOf(c) > CellIndexOf("target") THEN Built(l) ELSE NoCube
    /\ global_air_temp =
         IF CellIndexOf(c) > CellIndexOf("regrid")
         THEN RegridOp(Loaded(e), Built(l), e.tr) ELSE NoCube
    /\ air_temp_london = NoCube

DefaultEnv == [file |-> GoodFile, tr |-> DefaultTransform, rule |-> "overlap"]
DefaultBox == <<1, Scale>>

\* Target grid construction for extents on either side of zero
InitGrid ==
    \E t \in TargetLits(-MaxExtent..MaxExtent) :
        AtCell("target", WithBox(t, DefaultBox, DefaultBox), DefaultEnv)

NextGrid == Target \/ PlotTarget

SpecGrid == InitGrid /\ [][NextGrid]_vars

\* Regridding of uniform and non-uniform, masked and unmasked sources
RegridFiles ==
    {File(la, lo, FALSE, TRUE, k, mk) :
        la \in SrcAxes, lo \in SrcAxes, k \in 1..2, mk \in {{}, {<<1, 1>>}}}
    \cup {File(<<0, Scale>>, <<0, Scale>>, FALSE, FALSE, 1, {})}

InitRegrid ==
    \E t \in {u \in TargetLits({0}) : u.n >= 2 /\ u.m >= 2},
       f \in RegridFiles, tr \in Transforms :
        AtCell("regrid", WithBox(t, DefaultBox, DefaultBox),
               [file |-> f, tr |-> tr, rule |-> "overlap"])

NextRegrid == Regrid \/ PlotRegridded

SpecRegrid == InitRegrid /\ [][NextRegrid]_vars

\* Extraction of boxes below, across, inside and above the grid.  Both
\* coordinates go through the same code; the longitude takes every interval
\* (also a whole turn away), the latitude a few.
Shifted(ab, k) == <<ab[1] + k * Modulus, ab[2] + k * Modulus>>

LatIntervals == { <<-2 * Scale, -2 * Scale>>, <<1, 1>>, <<1, Scale>>, <<-2 * Scale, Scale>> }

ExtractLits ==
    {WithBox(t, Shifted(lo, k), la) :
        t \in {u \in TargetLits({0}) :
                  u.n >= 2 /\ u.m >= 2 /\ u.lat1 = MaxExtent * Scale},
        lo \in Intervals(BoxCoords), k \in 0..1,
        la \in LatIntervals}

InitExtract ==
    \E l \in ExtractLits, r \in Rules :
        AtCell("extract", l, [file |-> GoodFile, tr |-> DefaultTransform, rule |-> r])

NextExtract == Extract \/ PlotRegion \/ Save

SpecExtract == InitExtract /\ [][NextExtract]_vars

----------------------------------------------------------------------------
(* Properties *)

Did(c) == c \in Range(executed)
Increasing(s) == \A i \in 1..(Len(s) - 1) : s[i] < s[i + 1]

AxisSpans(axis, count, lo, hi) ==
    /\ Len(axis) = count
    /\ Increasing(axis)
    /\ axis[1] = lo
    /\ axis[Len(axis)] = hi
    /\ \A i \in 1..Len(axis) : lo <= axis[i] /\ axis[i] <= hi

TargetGridSpans ==
    /\ AxisSpans(global_cube.lat, lit.n, lit.lat0, lit.lat1)
    /\ AxisSpans(global_cube.lon, lit.m, lit.lon0, lit.lon1)

\* C1 as stated: for any extents and ANY counts (n, m) the target axes have
\* n and m points, increase, start at lat0 / lon0, end exactly at lat1 / lon1
\* and stay within the extents.
C1_TargetGridAnyCounts == global_cube.held => TargetGridSpans

\* C1 amended: for any extents and any counts n >= 2 and m >= 2 the target
\* cell completes and its axes have n and m points, increase, start at
\* lat0 / lon0, end exactly at lat1 / lon1 and stay within the extents.
C1_TargetGrid ==
    (lit.n >= 2 /\ lit.m >= 2 /\ pc # "target")
        => (Did("target") /\ global_cube.held /\ TargetGridSpans)

C1_Witness ==
    /\ Did("target")
    /\ lit.n >= 3
    /\ lit.m = 2
    /\ lit.lat0 < 0
    /\ global_cube.lat[2] # lit.lat0

\* The extraction cell has been run (it completed or it raised).
ExtractAttempted == Did("plot_regridded") /\ pc # "extract"

\* Closed intervals that share at least a point, the range taken modulo 360.
Overlaps(b, mn, mx) ==
    \E k \in -1..1 : b[1] + k * Modulus <= mx /\ b[2] + k * Modulus >= mn

OverlapIdx(bounds, mn, mx) == {i \in 1..Len(bounds) : Overlaps(bounds[i], mn, mx)}

\* The result axis holds exactly the source cells idx, in order: the same
\* cells up to whole turns, with their bounds.
SameCells(resPts, resB, srcPts, srcB, idx) ==
    /\ idx # {}
    /\ \A i \in SetMin(idx)..SetMax(idx) : i \in idx
    /\ Len(resPts) = Cardinality(idx)
    /\ Len(resB) = Cardinality(idx)
    /\ \A k \in 1..Len(resPts) :
          LET i == SetMin(idx) + k - 1
          IN /\ (resPts[k] - srcPts[i]) % Modulus = 0
             /\ resB[k][1] - resPts[k] = srcB[i][1] - srcPts[i]
             /\ resB[k][2] - resPts[k] = srcB[i][2] - srcPts[i]

ZeroWidthLon == lit.min_lon = lit.max_lon

\* C3 as stated: a box of zero longitude width yields a longitude axis of
\* length zero, and the extraction completes without an error.
C3_ZeroWidthGivesEmptyAxis ==
    (ZeroWidthLon /\ ExtractAttempted)
        => /\ failedAt = NoFailure
           /\ air_temp_london.held
           /\ Len(air_temp_london.lon) = 0

\* C3 amended: a box of zero longitude width never yields a longitude axis
\* of length zero.  The extraction either raises, which ends the run at the
\* extraction cell with no field produced, or returns a field with at least
\* one longitude cell, each of whose bounds contain the requested longitude.
C3_ZeroWidth ==
    (ZeroWidthLon /\ ExtractAttempted)
        => \/ /\ failedAt.cell = "extract"
              /\ pc = "failed"
              /\ ~air_temp_london.held
           \/ /\ failedAt = NoFailure
              /\ air_temp_london.held
              /\ Len(air_temp_london.lon) >= 1
              /\ \A k \in 1..Len(air_temp_london.lon) :
                    /\ air_temp_london.lonb[k][1] <= lit.min_lon
                    /\ lit.min_lon <= air_temp_london.lonb[k][2]

C3_Witness ==
    /\ ZeroWidthLon
    /\ Did("extract")
    /\ Len(air_temp_london.lon) = 1
    /\ air_temp_london.lonb[1][1] < lit.min_lon
    /\ lit.min_lon < air_temp_london.lonb[1][2]

\* The box misses the field's coverage on the longitude or the latitude axis.
Coverage(bounds) == <<bounds[1][1], bounds[Len(bounds)][2]>>

BoxOutside ==
    \/ ~Overlaps(Coverage(global_air_temp.lonb), lit.min_lon, lit.max_lon)
    \/ ~Overlaps(Coverage(global_air_temp.latb), lit.min_lat, lit.max_lat)

\* C4 as stated: for a box entirely outside the coverage the extraction does
\* not crash, it returns a field with zero-length axes, and the run goes on.
C4_OutsideGivesEmptyField ==
    (BoxOutside /\ ExtractAttempted)
        => /\ failedAt = NoFailure
           /\ air_temp_london.held
           /\ (Len(air_temp_london.lon) = 0 \/ Len(air_temp_london.lat) = 0)

\* C4 amended: for a box entirely outside the coverage the extraction raises
\* IndexError; no field, zero-length or other, is produced, the run ends at
\* the extraction cell and does not write the output file.
C4_OutsideRaises ==
    (BoxOutside /\ ExtractAttempted)
        => /\ failedAt = [cell |-> "extract", error |-> "IndexError"]
           /\ pc = "failed"
           /\ ~air_temp_london.held
           /\ outFile.run # run

C4_Witness ==
    /\ BoxOutside
    /\ lit.min_lon > global_air_temp.lonb[Len(global_air_temp.lonb)][2]
    /\ lit.max_lon > lit.min_lon
    /\ failedAt.cell = "extract"

\* Boxes within the requested box, with edges from the same set.
SubBoxes ==
    {[min_lon |-> lo[1], max_lon |-> lo[2], min_lat |-> la[1], max_lat |-> la[2]] :
        lo \in {ab \in Intervals({lit.min_lon, lit.max_lon}
                                  \cup {c + k * Modulus : c \in BoxCoords, k \in 0..1}) :
                    lit.min_lon <= ab[1] /\ ab[2] <= lit.max_lon},
        la \in {ab \in LatIntervals \cup {<<lit.min_lat, lit.max_lat>>} :
                    lit.min_lat <= ab[1] /\ ab[2] <= lit.max_lat}}

\* C6: for boxes B1 within B2, the longitude and latitude axes of the field
\* extracted with B1 are no longer than those of the field extracted with
\* B2 (and when B2 yields no field, neither does B1).
C6_MonotonicShrink ==
    ExtractAttempted =>
        \A b1 \in SubBoxes :
            IF ExtractError(env.rule, global_air_temp, b1) # "none" THEN TRUE
            ELSE LET small == ExtractOp(env.rule, global_air_temp, b1)
                 IN /\ Did("extract")
                    /\ Len(small.lon) <= Len(air_temp_london.lon)
                    /\ Len(small.lat) <= Len(air_temp_london.lat)

\* A strictly smaller box gives a strictly shorter longitude axis.
C6_Witness ==
    /\ Did("extract")
    /\ Len(air_temp_london.lon) = 2
    /\ \E b1 \in SubBoxes :
          /\ ExtractError(env.rule, global_air_temp, b1) = "none"
          /\ Len(ExtractOp(env.rule, global_air_temp, b1).lon) = 1

\* The position of target cell ij in the source frame.
PosOf(ij) == Project(env.tr, global_air_temp.lat[ij[1]], global_air_temp.lon[ij[2]])

\* The source's covered extent: the span of its points on both axes.
InsideCoverage(pos) ==
    /\ air_temp.lon[1] <= pos[1] /\ pos[1] <= air_temp.lon[Len(air_temp.lon)]
    /\ air_temp.lat[1] <= pos[2] /\ pos[2] <= air_temp.lat[Len(air_temp.lat)]

\* The source cells (by their lower indices) that contain pos.
EnclosingCells(pos) ==
    {c \in (1..(Len(air_temp.lat) - 1)) \X (1..(Len(air_temp.lon) - 1)) :
        /\ air_temp.lat[c[1]] <= pos[2] /\ pos[2] <= air_temp.lat[c[1] + 1]
        /\ air_temp.lon[c[2]] <= pos[1] /\ pos[1] <= air_temp.lon[c[2] + 1]}

Corners(c) == { <<c[1], c[2]>>, <<c[1], c[2] + 1>>,
                <<c[1] + 1, c[2]>>, <<c[1] + 1, c[2] + 1>> }

\* C5: after regridding, every output cell whose position in the source
\* frame falls outside the source's covered extent is masked; every output
\* cell whose position lies in a source cell with four valid values is not
\* masked and its value lies between the smallest and the largest of them.
C5_MaskPolicy ==
    Did("regrid") =>
        \A ij \in DOMAIN global_air_temp.data :
            LET pos == PosOf(ij)
                out == global_air_temp.data[ij]
            IN /\ ~InsideCoverage(pos) => out.m
               /\ \A c \in EnclosingCells(pos) :
                     (\A k \in Corners(c) : ~air_temp.data[k].m)
                         => /\ ~out.m
                            /\ out.den > 0
                            /\ \E k \in Corners(c) :
                                  air_temp.data[k].num * out.den <= out.num
                            /\ \E k \in Corners(c) :
                                  air_temp.data[k].num * out.den >= out.num

\* One output cell is masked for lying outside, another is interpolated
\* strictly between unequal source values.
C5_Witness ==
    /\ Did("regrid")
    /\ \E ij \in DOMAIN global_air_temp.data :
          ~InsideCoverage(PosOf(ij)) /\ global_air_temp.data[ij].m
    /\ \E ij \in DOMAIN global_air_temp.data :
          /\ InsideCoverage(PosOf(ij))
          /\ ~global_air_temp.data[ij].m
          /\ global_air_temp.data[ij].num % global_air_temp.data[ij].den # 0

\* C7: from any local storage state the set-up cell never fails and the
\* download cell fails only on a transport error; once the download cell
\* has completed, the directory exists and the file holds the served bytes,
\* whatever it held before; and running the two cells on the storage they
\* leave changes neither the directory nor the file.
C7_RerunIdempotent ==
    /\ [](/\ failedAt.cell # "setup"
          /\ failedAt.cell = "download"
                => failedAt.error \in {"URLError", "ContentTooShortError"}
          /\ Did("download") => (dirExists /\ cacheFile = remote))
    /\ [][(/\ pc \in {"setup", "download"}
           /\ dirExists
           /\ cacheFile = remote
           /\ pc' # "failed")
              => (dirExists' = dirExists /\ cacheFile' = cacheFile)]_vars

\* The second run has downloaded again onto what the first run left.
C7_Witness == run = 2 /\ Did("download") /\ pc = "load" /\ cacheFile = "ukv"

ShapeOK(cube) ==
    /\ cube.shape = <<Len(cube.lat), Len(cube.lon)>>
    /\ DOMAIN cube.data = (1..Len(cube.lat)) \X (1..Len(cube.lon))

\* Bounds present, contiguous, at the midpoints of adjacent points, the
\* outer bounds as far from the first and last point as the inner ones.
BoundsOK(points, bounds) ==
    /\ Len(points) >= 1
    /\ Len(bounds) = Len(points)
    /\ \A i \in 1..Len(points) : bounds[i][1] < bounds[i][2]
    /\ \A i \in 1..(Len(points) - 1) :
          /\ bounds[i][2] = bounds[i + 1][1]
          /\ 2 * bounds[i][2] = points[i] + points[i + 1]
    /\ points[1] - bounds[1][1] = bounds[1][2] - points[1]
    /\ points[Len(points)] - bounds[Len(points)][1]
           = bounds[Len(points)][2] - points[Len(points)]

FieldOK(cube) ==
    /\ cube.held
    /\ ShapeOK(cube)
    /\ Increasing(cube.lat)
    /\ Increasing(cube.lon)
    /\ BoundsOK(cube.lat, cube.latb)
    /\ BoundsOK(cube.lon, cube.lonb)

\* C8: the field each stage hands on (loaded, target, regridded, extracted)
\* has data of shape (length of axis 0, length of axis 1), strictly
\* increasing axes, and bounds on both axes that are contiguous and lie at
\* the midpoints of adjacent axis values, the first and last symmetric.
C8_FieldInvariant ==
    /\ Did("load") => FieldOK(air_temp)
    /\ Did("target") => FieldOK(global_cube)
    /\ Did("regrid") => FieldOK(global_air_temp)
    /\ Did("extract") => FieldOK(air_temp_london)

C8_Witness ==
    /\ Did("extract")
    /\ Len(air_temp_london.lon) >= 2
    /\ Len(air_temp_london.lon) < Len(global_air_temp.lon)
    /\ Len(air_temp.lon) = 3
    /\ air_temp_london.lon[1] >= Modulus

\* C9: the cells of a run execute in notebook order, each at most once and
\* none skipped: what has been executed is always the cells before the
\* current one; a finished run has executed every cell exactly once; and
\* the output file is written only after the extraction produced its field.
C9_Ordering ==
    /\ pc \in Range(Cells) => executed = SubSeq(Cells, 1, CellIndexOf(pc) - 1)
    /\ pc = "done" => executed = Cells
    /\ pc = "failed" => executed = SubSeq(Cells, 1, CellIndexOf(failedAt.cell) - 1)
    /\ outFile.run = run
          => /\ Did("extract")
             /\ air_temp_london.held
             /\ outFile.cube = air_temp_london

C9_Witness == pc = "done" /\ outFile.run = run /\ run = 1

CellStep ==
    \/ SetUp \/ Download \/ Load \/ PlotSource \/ Target \/ PlotTarget
    \/ Regrid \/ PlotRegridded \/ Extract \/ PlotRegion \/ Save

\* C10: when a cell fails the run stops there: no later cell executes, no
\* cell is retried, and that run does not write the output file.
C10_FatalFailures ==
    failedAt # NoFailure
        => /\ pc = "failed"
           /\ ~ENABLED CellStep
           /\ executed = SubSeq(Cells, 1, CellIndexOf(failedAt.cell) - 1)
           /\ outFile.run # run

C10_Witness ==
    /\ failedAt = [cell |-> "regrid", error |-> "ValueError"]
    /\ run = 2
    /\ outFile.run = 0

====
